---------------------------- MODULE Spec2Model ----------------------------
(***************************************************************************)
(* A model of marshmallow_jsonapi/fields.py: the Relationship field, its   *)
(* constructor, the memoized related-schema accessor, link resolution,     *)
(* resource linkage, serialization (with its side effect on the root       *)
(* schema's included_data) and deserialization.                            *)
(***************************************************************************)
EXTENDS Integers, Sequences, FiniteSets, TLC

(***************************************************************************)
(* Bounds of the model.                                                    *)
(***************************************************************************)
\* longest to-many value passed to serialize, longest data list passed to deserialize
MaxLen == 2
\* longest root.included_data the model lets serialize build
MaxIncluded == 3
\* number of threads that use one field instance concurrently
NumThreads == 2
\* accesses of Relationship.schema each thread makes
MaxAccess == 2

(***************************************************************************)
(* Python values.  A scalar is None, an int or a str; every scalar has the *)
(* same record shape so that any two can be compared.                      *)
(***************************************************************************)
None == [t |-> "none", i |-> 0, s |-> ""]
Int_(n) == [t |-> "int", i |-> n, s |-> ""]
Str_(x) == [t |-> "str", i |-> 0, s |-> x]

\* bool(v) of a scalar
Truthy(v) == \/ v.t = "str" /\ v.s # ""
             \/ v.t = "int" /\ v.i # 0

\* str(v) of a scalar, also what str.format substitutes for it
PyStr(v) == CASE v.t = "int" -> ToString(v.i)
              [] v.t = "str" -> v.s
              [] OTHER -> "None"

\* the empty dict
EmptyDict == << >>

\* d[k] = v on a dict d
DictSet(d, k, v) == (k :> v) @@ d

(***************************************************************************)
(* stringify                                                               *)
(***************************************************************************)
\* mutant: the id is passed through as it is
stringify_identity(value) == value

stringify(value) == IF value # None THEN Str_(PyStr(value)) ELSE value

(***************************************************************************)
(* Exceptions and results of a call.                                       *)
(***************************************************************************)
\* the messages of the ValidationErrors (a TLA+ string holds no backquote: the
\* source writes `id`, `type` and `data` between backquotes)
MustHaveId == "Must have an id field"
MustHaveType == "Must have a type field"
InvalidType == "Invalid type specified"
MustIncludeData == "Must include a data key"
IsListLike == "Relationship is list-like"
IsNotListLike == "Relationship is not list-like"
\* the message of marshmallow's Field.deserialize for a None it does not allow
MayNotBeNull == "Field may not be null."

NoRet == "no-return"
Returns(v) == [raised |-> "", messages |-> << >>, ret |-> v]
Raises(exc, msgs) == [raised |-> exc, messages |-> msgs, ret |-> NoRet]


(***************************************************************************)
(* Related schemas.  The schema argument is None, a schema instance, a     *)
(* schema class or the name of a class in marshmallow's class registry.    *)
(* `by` tells instances apart: 0 is an instance the caller supplied,       *)
(* t > 0 one that thread t created inside the accessor.                    *)
(***************************************************************************)
NoSchema == [t |-> "none", cls |-> "", by |-> 0]
SchemaInstance(c, who) == [t |-> "instance", cls |-> c, by |-> who]
SchemaClass(c) == [t |-> "class", cls |-> c, by |-> 0]
SchemaName(n) == [t |-> "name", cls |-> n, by |-> 0]

\* bool(schema): None and the empty string are false
SchemaTruthy(sc) == sc.t # "none" /\ ~(sc.t = "name" /\ sc.cls = "")

\* isinstance(x, SchemaABC)
IsSchemaInstance(x) == x.t = "instance"
\* isinstance(x, type) and issubclass(x, SchemaABC)
IsSchemaClass(x) == x.t = "class"
\* isinstance(x, basestring)
IsString(x) == x.t = "name"

\* the classes registered in marshmallow.class_registry
Registry == {"AuthorSchema"}

(***************************************************************************)
(* URL templates: a format string is a sequence of literal parts and       *)
(* {name} replacement fields; '' is the empty sequence.  A kwargs value is *)
(* a literal or, written <attr>, an attribute to pull from the object.     *)
(***************************************************************************)
Lit(x) == [ph |-> FALSE, text |-> x]
Ph(n) == [ph |-> TRUE, text |-> n]
Literal(x) == [attr |-> FALSE, text |-> x]
Attr(a) == [attr |-> TRUE, text |-> a]
\* the keyword argument left at its default None, or given as a dict
KwNone == [given |-> FALSE, d |-> EmptyDict]
Kw(d) == [given |-> TRUE, d |-> d]

(***************************************************************************)
(* Relationship.__init__ on the keyword arguments a.                       *)
(***************************************************************************)
\* x or {}
OrEmptyDict(kw) == IF kw.given /\ kw.d # EmptyDict THEN kw.d ELSE EmptyDict

NewField(a) ==
    [related_url |-> a.related_url,
     related_url_kwargs |-> OrEmptyDict(a.related_url_kwargs),
     self_url |-> a.self_url,
     self_url_kwargs |-> OrEmptyDict(a.self_url_kwargs),
     many |-> a.many,
     include_resource_object |-> a.include_resource_object \/ a.include_data,
     include_data |-> a.include_data,
     schema |-> a.schema,
     type_ |-> a.type_,
     id_field |-> IF Truthy(a.id_field) THEN a.id_field ELSE Str_("id")]

\* mutant: the two include_data checks (lines 87-90) are left out
Relationship_init_no_data_checks(a) ==
    IF a.include_resource_object /\ ~Truthy(a.type_)
    THEN Raises("ValueError", <<"include_resource_object=True requires the type_ argument.">>)
    ELSE Returns(NewField(a))

Relationship_init(a) ==
    IF a.include_resource_object /\ ~Truthy(a.type_)
    THEN Raises("ValueError", <<"include_resource_object=True requires the type_ argument.">>)
    ELSE IF a.include_data /\ ~Truthy(a.type_)
    THEN Raises("ValueError", <<"include_data=True requires the type_ argument.">>)
    ELSE IF a.include_data /\ ~SchemaTruthy(a.schema)
    THEN Raises("ValueError", <<"include_data=True requires the schema argument.">>)
    ELSE Returns(NewField(a))

(***************************************************************************)
(* Relationship.schema, run without interruption: what the property        *)
(* returns (or raises) and the value it leaves in self.__schema.           *)
(***************************************************************************)
\* class_registry.get_class(name)
get_class(name) ==
    IF name \in Registry THEN Returns(SchemaClass(name))
    ELSE Raises("RegistryError", <<"Class with name was not found.">>)

schema_get(slot) ==
    IF IsSchemaInstance(slot) THEN [out |-> Returns(slot), slot |-> slot]
    ELSE IF IsSchemaClass(slot)
    THEN LET inst == SchemaInstance(slot.cls, 0) IN [out |-> Returns(inst), slot |-> inst]
    ELSE IF IsString(slot)
    THEN LET schema_class == get_class(slot.cls)
         IN  IF schema_class.raised # "" THEN [out |-> schema_class, slot |-> slot]
             ELSE LET inst == SchemaInstance(schema_class.ret.cls, 0)
                  IN  [out |-> Returns(inst), slot |-> inst]
    ELSE [out |-> Returns(NoSchema), slot |-> slot]

(***************************************************************************)
(* marshmallow.utils.get_value(key, obj, default) on an object's           *)
(* attributes.                                                             *)
(***************************************************************************)
get_value(key, attrs, default) ==
    IF key \in DOMAIN attrs THEN attrs[key] ELSE default

(***************************************************************************)
(* utils.resolve_params and str.format                                     *)
(***************************************************************************)
\* the names whose <attr> the object lacks
MissingAttrs(obj, params) ==
    {n \in DOMAIN params : params[n].attr /\ params[n].text \notin DOMAIN obj}

resolve_params(obj, params) ==
    IF MissingAttrs(obj, params) # {}
    THEN Raises("AttributeError", <<"is not a valid attribute">>)
    ELSE Returns([n \in DOMAIN params |->
                    IF params[n].attr
                    THEN get_value(params[n].text, obj, None)
                    ELSE Str_(params[n].text)])

RECURSIVE FormatParts(_, _)
FormatParts(parts, kwargs) ==
    IF parts = << >> THEN ""
    ELSE (IF Head(parts).ph THEN PyStr(kwargs[Head(parts).text]) ELSE Head(parts).text)
         \o FormatParts(Tail(parts), kwargs)

\* template.format(**kwargs)
format(template, kwargs) ==
    IF \E k \in 1..Len(template) : template[k].ph /\ template[k].text \notin DOMAIN kwargs
    THEN Raises("KeyError", << >>)
    ELSE Returns(Str_(FormatParts(template, kwargs)))

resolve_url(template, params, obj) ==
    IF template # << >>
    THEN LET kwargs == resolve_params(obj, params)
         IN  IF kwargs.raised # "" THEN kwargs ELSE format(template, kwargs.ret)
    ELSE Returns(None)

get_related_url(self, obj) == resolve_url(self.related_url, self.related_url_kwargs, obj)

get_self_url(self, obj) == resolve_url(self.self_url, self.self_url_kwargs, obj)


(***************************************************************************)
(* JSON values of a relationship object's data member: null, a scalar, a   *)
(* mapping or a list of mappings.  A mapping is a function from its keys.  *)
(***************************************************************************)
JNull == [kind |-> "null", items |-> << >>, v |-> None]
JScalar(x) == [kind |-> "scalar", items |-> << >>, v |-> x]
JMap(m) == [kind |-> "mapping", items |-> <<m>>, v |-> None]
JList(ms) == [kind |-> "list", items |-> ms, v |-> None]

\* marshmallow.utils.is_collection: iterable, and neither a string nor a mapping
is_collection(value) == value.kind = "list"

(***************************************************************************)
(* Relationship.get_resource_linkage.  A related element has attributes    *)
(* (attrs) and, used as a value itself, reads as the scalar `self`: a bare *)
(* identifier is its own value, an object is its str().  The value passed  *)
(* to serialize is None, one element, or a list of elements.               *)
(***************************************************************************)
VNone == [kind |-> "none", items |-> << >>]
VOne(e) == [kind |-> "one", items |-> <<e>>]
VList(es) == [kind |-> "list", items |-> es]

linkage(self, each) ==
    [type |-> self.type_,
     id |-> stringify(get_value(self.id_field.s, each.attrs, each.self))]

get_resource_linkage(self, value) ==
    IF self.many
    THEN JList([k \in 1..Len(value.items) |-> linkage(self, value.items[k])])
    ELSE JMap(linkage(self, value.items[1]))

(***************************************************************************)
(* Relationship.extract_value                                              *)
(***************************************************************************)
\* key in data; the model's strings contain neither 'id' nor 'type'
KeyIn(key, data) == data.kind = "mapping" /\ key \in DOMAIN data.items[1]

\* mutant: raises at the first error found
extract_value_first_error(self, data) ==
    IF ~KeyIn("id", data) THEN Raises("ValidationError", <<MustHaveId>>)
    ELSE IF ~KeyIn("type", data) THEN Raises("ValidationError", <<MustHaveType>>)
    ELSE IF data.items[1]["type"] # self.type_ THEN Raises("ValidationError", <<InvalidType>>)
    ELSE Returns(data.items[1]["id"])

\* mutant: the type is required but never compared with type_
extract_value_any_type(self, data) ==
    LET e1 == IF ~KeyIn("id", data) THEN <<MustHaveId>> ELSE << >>
        e2 == IF ~KeyIn("type", data) THEN <<MustHaveType>> ELSE << >>
        errors == e1 \o e2
    IN  IF errors # << >> THEN Raises("ValidationError", errors)
        ELSE Returns(data.items[1]["id"])

extract_value(self, data) ==
    IF data.kind = "null" \/ (data.kind = "scalar" /\ data.v.t # "str")
    THEN Raises("TypeError", <<"argument is not iterable">>)
    ELSE LET e1 == IF ~KeyIn("id", data) THEN <<MustHaveId>> ELSE << >>
             e2 == IF ~KeyIn("type", data) THEN <<MustHaveType>>
                   ELSE IF data.items[1]["type"] # self.type_
                        THEN <<InvalidType>>
                        ELSE << >>
             errors == e1 \o e2
         IN  IF errors # << >> THEN Raises("ValidationError", errors)
             ELSE Returns(data.items[1]["id"])

(***************************************************************************)
(* Relationship._deserialize and Relationship.deserialize                  *)
(***************************************************************************)
\* [self.extract_value(item) for item in value]: the first item that raises
\* ends the comprehension
extract_each(self, items) ==
    LET results == [k \in 1..Len(items) |-> extract_value(self, JMap(items[k]))]
        failing == {k \in 1..Len(items) : results[k].raised # ""}
    IN  IF failing # {}
        THEN results[CHOOSE k \in failing : \A j \in failing : k <= j]
        ELSE Returns([k \in 1..Len(items) |-> results[k].ret])

\* mutant: the two is_collection checks are left out
deserialize_no_shape_check(self, value) ==
    IF self.many /\ is_collection(value)
    THEN extract_each(self, value.items)
    ELSE extract_value(self, value)

deserialize_(self, value) ==
    IF self.many
    THEN IF ~is_collection(value)
         THEN Raises("ValidationError", <<IsListLike>>)
         ELSE extract_each(self, value.items)
    ELSE IF is_collection(value)
         THEN Raises("ValidationError", <<IsNotListLike>>)
         ELSE extract_value(self, value)

\* marshmallow's Field.deserialize, reached through super(): None is refused
\* (allow_none is not set), anything else goes to _deserialize
Field_deserialize(self, value) ==
    IF value.kind = "null"
    THEN Raises("ValidationError", <<MayNotBeNull>>)
    ELSE deserialize_(self, value)

\* a raw value is a dict d or not a dict at all
RawDict(d) == [isdict |-> TRUE, d |-> d]
RawOther == [isdict |-> FALSE, d |-> EmptyDict]

deserialize(self, value) ==
    IF ~value.isdict \/ "data" \notin DOMAIN value.d
    THEN Raises("ValidationError", <<MustIncludeData>>)
    ELSE Field_deserialize(self, value.d["data"])


(***************************************************************************)
(* Relationship._serialize.  The related schema's dump is the              *)
(* collaborator: it reports the errors it finds in an element (errs) or    *)
(* renders the element as a resource.                                      *)
(***************************************************************************)
dump(schema, item) ==
    [errors |-> item.errs, data |-> [schema |-> schema.cls, item |-> item]]

\* mutant: the URLs are tested with "is not None"
with_links_not_none(ret, self_url, related_url) ==
    IF self_url # None \/ related_url # None
    THEN LET l0 == EmptyDict
             l1 == IF self_url # None THEN DictSet(l0, "self", self_url) ELSE l0
             l2 == IF related_url # None THEN DictSet(l1, "related", related_url) ELSE l1
         IN  DictSet(ret, "links", l2)
    ELSE ret

\* lines 178-183: the links member
with_links(ret, self_url, related_url) ==
    IF Truthy(self_url) \/ Truthy(related_url)
    THEN LET l0 == EmptyDict
             l1 == IF Truthy(self_url) THEN DictSet(l0, "self", self_url) ELSE l0
             l2 == IF Truthy(related_url) THEN DictSet(l1, "related", related_url) ELSE l1
         IN  DictSet(ret, "links", l2)
    ELSE ret

\* lines 185-189: the data member
with_data(self, ret, value) ==
    IF self.include_resource_object
    THEN IF value.kind = "none"
         THEN DictSet(ret, "data", IF self.many THEN JList(<< >>) ELSE JNull)
         ELSE DictSet(ret, "data", get_resource_linkage(self, value))
    ELSE ret

\* mutant: the resource is put in front of included_data
include_item_prepends(slot, item, included) ==
    LET acc == schema_get(slot)
        result == dump(acc.out.ret, item)
    IN  IF acc.out.raised # "" THEN [out |-> acc.out, slot |-> acc.slot, included |-> included]
        ELSE IF result.errors # << >>
        THEN [out |-> Raises("ValidationError", result.errors),
              slot |-> acc.slot, included |-> included]
        ELSE [out |-> Returns(None), slot |-> acc.slot,
              included |-> <<result.data>> \o included]

\* one pass of the loop body (lines 196-199, and 201-204): self.schema, dump,
\* raise on errors, append
include_item(slot, item, included) ==
    LET acc == schema_get(slot)
    IN  IF acc.out.raised # ""
        THEN [out |-> acc.out, slot |-> acc.slot, included |-> included]
        ELSE IF acc.out.ret.t = "none"
        THEN [out |-> Raises("AttributeError", <<"'NoneType' object has no attribute 'dump'">>),
              slot |-> acc.slot, included |-> included]
        ELSE LET result == dump(acc.out.ret, item)
             IN  IF result.errors # << >>
                 THEN [out |-> Raises("ValidationError", result.errors),
                       slot |-> acc.slot, included |-> included]
                 ELSE [out |-> Returns(None), slot |-> acc.slot,
                       included |-> Append(included, result.data)]

\* for item in value: ... from the k-th item on
RECURSIVE include_from(_, _, _, _)
include_from(slot, items, k, included) ==
    IF k > Len(items)
    THEN [out |-> Returns(None), slot |-> slot, included |-> included]
    ELSE LET step == include_item(slot, items[k], included)
         IN  IF step.out.raised # "" THEN step
             ELSE include_from(step.slot, items, k + 1, step.included)

\* lines 191-204: the included data
include_related(self, value, included) ==
    IF self.include_data /\ value.kind # "none"
    THEN IF self.many
         THEN include_from(self.schema, value.items, 1, included)
         ELSE include_item(self.schema, value.items[1], included)
    ELSE [out |-> Returns(None), slot |-> self.schema, included |-> included]

\* the result of the call, self.__schema and root.included_data after it
serialize_(self, value, obj, included) ==
    LET self_url == get_self_url(self, obj)
        related_url == get_related_url(self, obj)
        unchanged(out) == [out |-> out, slot |-> self.schema, included |-> included]
    IN  IF self_url.raised # "" THEN unchanged(self_url)
        ELSE IF related_url.raised # "" THEN unchanged(related_url)
        ELSE LET ret == with_data(self, with_links(EmptyDict, self_url.ret, related_url.ret), value)
                 inc == include_related(self, value, included)
             IN  IF inc.out.raised # "" THEN inc
                 ELSE [out |-> Returns(ret), slot |-> inc.slot, included |-> inc.included]


(***************************************************************************)
(* The inputs the model draws from.                                        *)
(***************************************************************************)
SeqsUpTo(S, n) == UNION {[1..k -> S] : k \in 0..n}

\* related_url / self_url with their kwargs
NoUrl == [url |-> << >>, kwargs |-> KwNone]
CommentsUrl == [url |-> <<Lit("/posts/"), Ph("post_id"), Lit("/"), Ph("kind"), Lit("/")>>,
                kwargs |-> Kw([post_id |-> Attr("id"), kind |-> Literal("comments")])]
PathUrl == [url |-> <<Ph("path")>>, kwargs |-> Kw([path |-> Attr("slug")])]
\* a replacement field no kwarg fills
AuthorUrl == [url |-> <<Lit("/authors/"), Ph("author_id")>>, kwargs |-> KwNone]
RelatedUrls == {NoUrl, CommentsUrl, AuthorUrl}
SelfUrls == {NoUrl, PathUrl}

\* the objects a relationship is serialized for
Objects ==
    {[id |-> Int_(42), slug |-> Str_("")], [id |-> Int_(7), slug |-> Str_("/me")],
     [id |-> Int_(9)]}

Schemas == {NoSchema, SchemaInstance("AuthorSchema", 0), SchemaClass("AuthorSchema"),
            SchemaName("AuthorSchema"), SchemaName("Unregistered"), SchemaName("")}
Types == {None, Str_(""), Str_("people")}
IdFields == {None, Str_("uuid")}

CtorArgs ==
    {[related_url |-> r.url, related_url_kwargs |-> r.kwargs,
      self_url |-> u.url, self_url_kwargs |-> u.kwargs,
      include_resource_object |-> iro, include_data |-> inc, schema |-> sc,
      many |-> m, type_ |-> ty, id_field |-> idf] :
        r \in RelatedUrls, u \in SelfUrls, iro \in BOOLEAN, inc \in BOOLEAN,
        sc \in Schemas, m \in BOOLEAN, ty \in Types, idf \in IdFields}

\* related elements: an object with an int id, a bare identifier, an object
\* whose id is None, an object the related schema rejects
Elements ==
    {[attrs |-> [id |-> Int_(1), uuid |-> Str_("u-1")], self |-> Str_("<Person 1>"),
      errs |-> << >>],
     [attrs |-> EmptyDict, self |-> Int_(2), errs |-> << >>],
     [attrs |-> [id |-> None], self |-> Str_("<Person None>"), errs |-> << >>],
     [attrs |-> [id |-> Int_(3)], self |-> Str_("<Person 3>"),
      errs |-> <<"name: Not a valid string.">>]}

Values(many) ==
    {VNone} \cup (IF many THEN {VList(es) : es \in SeqsUpTo(Elements, MaxLen)}
                          ELSE {VOne(e) : e \in Elements})

\* resource identifier objects, whole and defective
Items ==
    {[id |-> Str_("7"), type |-> Str_("people")],
     [id |-> Str_("8"), type |-> Str_("comments")],
     [id |-> Str_("7")],
     [type |-> Str_("people")],
     [type |-> Str_("comments")],
     EmptyDict}
ListItems ==
    {[id |-> Str_("7"), type |-> Str_("people")],
     [id |-> Str_("8"), type |-> Str_("people")],
     [type |-> Str_("comments")],
     EmptyDict}

DataValues ==
    {JNull, JScalar(Str_("7"))} \cup {JMap(m) : m \in Items}
        \cup {JList(ms) : ms \in SeqsUpTo(ListItems, MaxLen)}

RawValues ==
    {RawOther, RawDict(EmptyDict), RawDict([meta |-> JNull])}
        \cup {RawDict([data |-> d]) : d \in DataValues}

(***************************************************************************)
(* The state: one Relationship field, the root schema's included_data and  *)
(* the call the containing schema is making on the field: its arguments    *)
(* and its result, until the schema takes the result (Return).             *)
(* For the threads that read field.schema concurrently: where each is in   *)
(* the property (pc), the object it built and has not stored yet (tmp),    *)
(* what its last access returned or raised (result) and how many accesses  *)
(* it has begun (accesses), the related element its serialize call was     *)
(* given (elem) and what its last serialize call returned or raised        *)
(* (outcome).                                                              *)
(***************************************************************************)
VARIABLES field, state, included_data, call, pc, tmp, result, accesses, elem, outcome

threadVars == <<pc, tmp, result, accesses, elem, outcome>>
vars == <<field, state, included_data, call, pc, tmp, result, accesses, elem, outcome>>

Threads == 1..NumThreads

\* a thread that has been given no element and has finished no call
NoItem == [attrs |-> EmptyDict, self |-> None, errs |-> << >>]
NoOutcome == [raised |-> "no-call", messages |-> << >>, ret |-> NoRet]

ThreadsIdle ==
    /\ pc = [t \in Threads |-> "idle"]
    /\ tmp = [t \in Threads |-> NoSchema]
    /\ result = [t \in Threads |-> Returns(NoSchema)]
    /\ accesses = [t \in Threads |-> 0]
    /\ elem = [t \in Threads |-> NoItem]
    /\ outcome = [t \in Threads |-> NoOutcome]

\* no field yet
NoField == [constructed |-> FALSE]

Init ==
    /\ field = NoField
    /\ state = "new"
    /\ included_data = << >>
    /\ call = [op |-> "none"]
    /\ ThreadsIdle

\* Relationship(**a)
Construct ==
    /\ state = "new"
    /\ call.op = "none"
    /\ \E a \in CtorArgs :
         LET out == Relationship_init(a)
         IN  /\ state' = IF out.raised = "" THEN "ready" ELSE "failed"
             /\ field' = IF out.raised = "" THEN out.ret ELSE field
             /\ call' = [op |-> "init", args |-> a, out |-> out]
    /\ UNCHANGED <<included_data, threadVars>>

\* field.serialize(attr, obj), which hands the attribute's value to _serialize
Serialize ==
    /\ state = "ready"
    /\ call.op = "none"
    /\ \E value \in Values(field.many), obj \in Objects :
         /\ field.include_data => Len(included_data) + Len(value.items) <= MaxIncluded
         /\ LET r == serialize_(field, value, obj, included_data)
            IN  /\ field' = [field EXCEPT !.schema = r.slot]
                /\ included_data' = r.included
                /\ call' = [op |-> "serialize", self |-> field, value |-> value,
                            obj |-> obj, before |-> included_data, out |-> r.out]
    /\ UNCHANGED <<state, threadVars>>

\* field.deserialize(value)
Deserialize ==
    /\ state = "ready"
    /\ call.op = "none"
    /\ \E value \in RawValues :
         call' = [op |-> "deserialize", self |-> field, value |-> value,
                  before |-> included_data, out |-> deserialize(field, value)]
    /\ UNCHANGED <<field, state, included_data, threadVars>>

\* the containing schema takes the result (or the exception) of the call
Return ==
    /\ call.op # "none"
    /\ call' = [op |-> "none"]
    /\ UNCHANGED <<field, state, included_data, threadVars>>

Next == Construct \/ Serialize \/ Deserialize \/ Return

Spec == Init /\ [][Next]_vars


(***************************************************************************)
(* Relationship.schema read by several threads at once (lines 99-109).     *)
(* Every step reads self.__schema at most once; a thread may be preempted  *)
(* between any two steps.                                                  *)
(***************************************************************************)
\* the fields whose serialize reads self.schema: include_data=True
SchemaArgs ==
    {a \in CtorArgs : /\ a.include_data /\ ~a.include_resource_object /\ ~a.many
                      /\ a.related_url = << >> /\ a.self_url = << >>
                      /\ a.id_field = None
                      /\ (a.schema.t = "name" => a.schema.cls \in Registry)
                      /\ Relationship_init(a).raised = ""}

InitSchema ==
    /\ \E a \in SchemaArgs : field = Relationship_init(a).ret
    /\ state = "ready"
    /\ included_data = << >>
    /\ call = [op |-> "none"]
    /\ ThreadsIdle

Goto(t, label) == pc' = [pc EXCEPT ![t] = label]
Finish(t, out) == /\ pc' = [pc EXCEPT ![t] = "done"]
                  /\ result' = [result EXCEPT ![t] = out]
FieldUnchanged == UNCHANGED <<field, state, included_data, call, elem, outcome>>

\* the object the threads serialize the relationship of
ThreadObject == [id |-> Int_(42), slug |-> Str_("")]

\* thread t calls _serialize(e, attr, obj): lines 173-191 build ret and touch
\* nothing shared, line 201 reaches self.schema
Access(t) ==
    /\ pc[t] = "idle"
    /\ accesses[t] < MaxAccess
    /\ accesses' = [accesses EXCEPT ![t] = @ + 1]
    /\ \E e \in Elements : elem' = [elem EXCEPT ![t] = e]
    /\ Goto(t, "l101")
    /\ UNCHANGED <<tmp, result, outcome>>
    /\ UNCHANGED <<field, state, included_data, call>>

\* line 101: if isinstance(self.__schema, SchemaABC)
L101(t) ==
    /\ pc[t] = "l101"
    /\ Goto(t, IF IsSchemaInstance(field.schema) THEN "l102" ELSE "l103")
    /\ UNCHANGED <<tmp, result, accesses>>
    /\ FieldUnchanged

\* line 102: return self.__schema
L102(t) ==
    /\ pc[t] = "l102"
    /\ Finish(t, Returns(field.schema))
    /\ UNCHANGED <<tmp, accesses>>
    /\ FieldUnchanged

\* line 103, left operand: isinstance(self.__schema, type)
L103(t) ==
    /\ pc[t] = "l103"
    /\ Goto(t, IF field.schema.t = "class" THEN "l103b" ELSE "l106")
    /\ UNCHANGED <<tmp, result, accesses>>
    /\ FieldUnchanged

\* line 103, right operand: issubclass(self.__schema, SchemaABC), a TypeError
\* when its first argument is not a class
L103b(t) ==
    /\ pc[t] = "l103b"
    /\ IF field.schema.t = "class"
       THEN Goto(t, "l104") /\ UNCHANGED result
       ELSE Finish(t, Raises("TypeError", <<"issubclass() arg 1 must be a class">>))
    /\ UNCHANGED <<tmp, accesses>>
    /\ FieldUnchanged

\* line 104, right-hand side: self.__schema(), a TypeError when the object
\* read is not callable
L104(t) ==
    /\ pc[t] = "l104"
    /\ IF field.schema.t = "class"
       THEN /\ tmp' = [tmp EXCEPT ![t] = SchemaInstance(field.schema.cls, t)]
            /\ Goto(t, "l104s")
            /\ UNCHANGED result
       ELSE /\ Finish(t, Raises("TypeError", <<"object is not callable">>))
            /\ UNCHANGED tmp
    /\ UNCHANGED accesses
    /\ FieldUnchanged

\* line 104, the assignment: self.__schema = ...
L104s(t) ==
    /\ pc[t] = "l104s"
    /\ field' = [field EXCEPT !.schema = tmp[t]]
    /\ Goto(t, "l105")
    /\ UNCHANGED <<state, included_data, call, tmp, result, accesses, elem, outcome>>

\* line 105: return self.__schema
L105(t) ==
    /\ pc[t] = "l105"
    /\ Finish(t, Returns(field.schema))
    /\ UNCHANGED <<tmp, accesses>>
    /\ FieldUnchanged

\* line 106: if isinstance(self.__schema, basestring); when it is not, the
\* property ends without a return statement and yields None
L106(t) ==
    /\ pc[t] = "l106"
    /\ IF IsString(field.schema)
       THEN Goto(t, "l107") /\ UNCHANGED result
       ELSE Finish(t, Returns(NoSchema))
    /\ UNCHANGED <<tmp, accesses>>
    /\ FieldUnchanged

\* line 107: schema_class = class_registry.get_class(self.__schema); the
\* registry has no entry under a key that is not a registered name
L107(t) ==
    /\ pc[t] = "l107"
    /\ LET schema_class == IF IsString(field.schema) THEN get_class(field.schema.cls)
                           ELSE Raises("RegistryError", <<"Class with name was not found.">>)
       IN  IF schema_class.raised = ""
           THEN /\ tmp' = [tmp EXCEPT ![t] = schema_class.ret]
                /\ Goto(t, "l108")
                /\ UNCHANGED result
           ELSE /\ Finish(t, schema_class)
                /\ UNCHANGED tmp
    /\ UNCHANGED accesses
    /\ FieldUnchanged

\* line 108: self.__schema = schema_class()
L108(t) ==
    /\ pc[t] = "l108"
    /\ field' = [field EXCEPT !.schema = SchemaInstance(tmp[t].cls, t)]
    /\ Goto(t, "l109")
    /\ UNCHANGED <<state, included_data, call, tmp, result, accesses, elem, outcome>>

\* line 109: return self.__schema
L109(t) ==
    /\ pc[t] = "l109"
    /\ Finish(t, Returns(field.schema))
    /\ UNCHANGED <<tmp, accesses>>
    /\ FieldUnchanged

\* what lines 201-205 do with what the property gave: an exception of the
\* property goes on to the caller, None has no dump, errors of the dump are
\* raised, and otherwise the resource is appended and ret returned
resume_serialize(self, got, e, included) ==
    IF got.raised # "" THEN [out |-> got, included |-> included]
    ELSE IF ~IsSchemaInstance(got.ret)
    THEN [out |-> Raises("AttributeError", <<"'NoneType' object has no attribute 'dump'">>),
          included |-> included]
    ELSE LET dumped == dump(got.ret, e)
             self_url == get_self_url(self, ThreadObject).ret
             related_url == get_related_url(self, ThreadObject).ret
         IN  IF dumped.errors # << >>
             THEN [out |-> Raises("ValidationError", dumped.errors), included |-> included]
             ELSE [out |-> Returns(with_data(self, with_links(EmptyDict, self_url, related_url),
                                             VOne(e))),
                   included |-> Append(included, dumped.data)]

\* the serialize call of thread t goes on after self.schema and ends
Resume(t) ==
    /\ pc[t] = "done"
    /\ LET r == resume_serialize(field, result[t], elem[t], included_data)
       IN  /\ included_data' = r.included
           /\ outcome' = [outcome EXCEPT ![t] = r.out]
    /\ Goto(t, "idle")
    /\ UNCHANGED <<tmp, result, accesses, elem>>
    /\ UNCHANGED <<field, state, call>>

NextSchema ==
    \E t \in Threads :
        \/ Access(t) \/ L101(t) \/ L102(t) \/ L103(t) \/ L103b(t) \/ L104(t)
        \/ L104s(t) \/ L105(t) \/ L106(t) \/ L107(t) \/ L108(t) \/ L109(t)
        \/ Resume(t)

SpecSchema == InitSchema /\ [][NextSchema]_vars


(***************************************************************************)
(*                              The claims                                 *)
(***************************************************************************)
SerializeReturned == call.op = "serialize" /\ call.out.raised = ""

\* a serialize call whose links resolve and whose related schema exists
SerializeReachesDump ==
    /\ call.op = "serialize"
    /\ call.self.include_data
    /\ get_self_url(call.self, call.obj).raised = ""
    /\ get_related_url(call.self, call.obj).raised = ""
    /\ schema_get(call.self.schema).out.raised = ""

(* C1: a serialize call that returns leaves root.included_data equal to    *)
(* its contents before the call followed by k rendered resources: k = 0    *)
(* when include_data is false or the value is None, 1 for a to-one value,  *)
(* the number of elements for a to-many value, in the order of the         *)
(* elements; deserialize leaves included_data as it was.                   *)
C1_IncludedFrame ==
    /\ SerializeReturned =>
         LET self == call.self
             items == call.value.items
             k == IF ~self.include_data \/ call.value.kind = "none" THEN 0
                  ELSE IF self.many THEN Len(items) ELSE 1
             n == Len(call.before)
         IN  /\ Len(included_data) = n + k
             /\ \A j \in 1..n : included_data[j] = call.before[j]
             /\ \A j \in 1..k :
                  included_data[n + j] = [schema |-> self.schema.cls, item |-> items[j]]
    /\ call.op = "deserialize" => included_data = call.before

C1_Witness ==
    /\ SerializeReturned
    /\ call.self.include_data /\ call.self.many
    /\ call.before # << >>
    /\ Len(call.value.items) = 2
    /\ call.value.items[1] # call.value.items[2]

(* C2, as claimed: when include_data is true and the related schema        *)
(* reports errors for any element, serialize raises a ValidationError      *)
(* carrying those errors and root.included_data equals its contents before *)
(* the call.                                                               *)
C2_FailedSerializeAppendsNothing ==
    (/\ SerializeReachesDump
     /\ \E j \in 1..Len(call.value.items) : call.value.items[j].errs # << >>)
    => /\ call.out.raised = "ValidationError"
       /\ \E j \in 1..Len(call.value.items) : call.out.messages = call.value.items[j].errs
       /\ included_data = call.before

(* C3, as claimed: under any interleaving of the steps of the schema       *)
(* property, every access that has completed returned a schema instance    *)
(* (none returned None, none raised), and once a thread has completed an   *)
(* access the field holds a resolved instance.                             *)
C3_ConcurrentFirstUse ==
    \A t \in Threads :
        pc[t] = "done" =>
            /\ result[t].raised = ""
            /\ IsSchemaInstance(result[t].ret)
            /\ IsSchemaInstance(field.schema)

(* C4, as claimed: the ValidationError a to-many deserialize raises holds  *)
(* the messages of every invalid item of the data list, not only those of  *)
(* the first invalid item.                                                 *)
C4_AllInvalidItemsReported ==
    (/\ call.op = "deserialize"
     /\ call.self.many
     /\ call.value.isdict /\ "data" \in DOMAIN call.value.d
     /\ call.value.d["data"].kind = "list")
    => LET items == call.value.d["data"].items
           missing_id(m) == "id" \notin DOMAIN m
           missing_type(m) == "type" \notin DOMAIN m
           wrong_type(m) == "type" \in DOMAIN m /\ m["type"] # call.self.type_
           reported(msg) == \E j \in 1..Len(call.out.messages) : call.out.messages[j] = msg
       IN  \A k \in 1..Len(items) :
             /\ missing_id(items[k]) => reported(MustHaveId)
             /\ missing_type(items[k]) => reported(MustHaveType)
             /\ wrong_type(items[k]) => reported(InvalidType)


\* a to-one deserialize call whose data is a mapping: it comes to
\* extract_value(data)
ExtractValueCalled ==
    /\ call.op = "deserialize"
    /\ ~call.self.many
    /\ call.value.isdict /\ "data" \in DOMAIN call.value.d
    /\ call.value.d["data"].kind = "mapping"

(* C5: extract_value raises all errors of an item in one ValidationError   *)
(* whose messages are exactly: the id message iff the id key is absent,    *)
(* the type message iff the type key is absent, the invalid-type message   *)
(* iff the type key is present and differs from type_; it raises iff that  *)
(* list is not empty, and otherwise returns the item's id unchanged.       *)
C5_ExtractValueMessages ==
    ExtractValueCalled =>
        LET item == call.value.d["data"].items[1]
            expected ==
                (IF "id" \notin DOMAIN item THEN <<MustHaveId>> ELSE << >>)
                \o (IF "type" \notin DOMAIN item THEN <<MustHaveType>> ELSE << >>)
                \o (IF "type" \in DOMAIN item /\ item["type"] # call.self.type_
                    THEN <<InvalidType>> ELSE << >>)
        IN  /\ call.out.messages = expected
            /\ (call.out.raised = "ValidationError") <=> (expected # << >>)
            /\ (call.out.raised = "") <=> (expected = << >>)
            /\ call.out.raised = "" => call.out.ret = item["id"]

C5_Witness ==
    /\ ExtractValueCalled
    /\ DOMAIN call.value.d["data"].items[1] = {"type"}
    /\ call.out.raised = "ValidationError"
    /\ call.out.messages = <<MustHaveId, InvalidType>>

(* C6, as claimed: deserialize checks the shape of its input in a fixed    *)
(* order: a value that is no mapping or has no data key fails with the     *)
(* data-key message; otherwise many with data that is not a list (null, a  *)
(* scalar or a mapping) fails with list-like, not many with a list fails   *)
(* with not-list-like; only when the shape fits are items extracted, and   *)
(* for many the result is the sequence of the extracted ids, as long as    *)
(* data and in its order.                                                  *)
C6_ShapeChecksInOrder ==
    call.op = "deserialize" =>
        LET value == call.value
            self == call.self
            fails_with(msg) == /\ call.out.raised = "ValidationError"
                               /\ call.out.messages = <<msg>>
        IN  IF ~value.isdict \/ "data" \notin DOMAIN value.d
            THEN fails_with(MustIncludeData)
            ELSE LET data == value.d["data"]
                 IN  /\ (self.many /\ data.kind # "list")
                            => fails_with(IsListLike)
                     /\ (~self.many /\ data.kind = "list")
                            => fails_with(IsNotListLike)
                     /\ (self.many /\ data.kind = "list") =>
                            /\ ~fails_with(IsListLike)
                            /\ ~fails_with(MustIncludeData)
                            /\ call.out.raised = "" =>
                                 /\ Len(call.out.ret) = Len(data.items)
                                 /\ \A k \in 1..Len(data.items) :
                                      call.out.ret[k] = data.items[k]["id"]
                     /\ (~self.many /\ data.kind # "list") =>
                            /\ ~fails_with(IsNotListLike)
                            /\ ~fails_with(MustIncludeData)

(* C6, amended: as above, except that data: null is refused first, with    *)
(* the may-not-be-null message whatever many is and before either shape    *)
(* check; the list-like failure is that of many with a scalar or a mapping.*)
C6_ShapeChecksNullFirst ==
    call.op = "deserialize" =>
        LET value == call.value
            self == call.self
            fails_with(msg) == /\ call.out.raised = "ValidationError"
                               /\ call.out.messages = <<msg>>
        IN  IF ~value.isdict \/ "data" \notin DOMAIN value.d
            THEN fails_with(MustIncludeData)
            ELSE LET data == value.d["data"]
                 IN  /\ data.kind = "null" => fails_with(MayNotBeNull)
                     /\ (self.many /\ data.kind \in {"scalar", "mapping"})
                            => fails_with(IsListLike)
                     /\ (~self.many /\ data.kind = "list")
                            => fails_with(IsNotListLike)
                     /\ (self.many /\ data.kind = "list") =>
                            /\ ~fails_with(IsListLike)
                            /\ ~fails_with(MustIncludeData)
                            /\ ~fails_with(MayNotBeNull)
                            /\ call.out.raised = "" =>
                                 /\ Len(call.out.ret) = Len(data.items)
                                 /\ \A k \in 1..Len(data.items) :
                                      call.out.ret[k] = data.items[k]["id"]
                     /\ (~self.many /\ data.kind \in {"scalar", "mapping"}) =>
                            /\ ~fails_with(IsNotListLike)
                            /\ ~fails_with(MustIncludeData)
                            /\ ~fails_with(MayNotBeNull)

C6_Witness ==
    /\ call.op = "deserialize"
    /\ call.self.many
    /\ call.value.isdict /\ "data" \in DOMAIN call.value.d
    /\ call.value.d["data"].kind = "list"
    /\ call.out.raised = ""
    /\ call.out.ret = <<Str_("8"), Str_("7")>>

(* C7: the object serialize returns has a data member iff the field's      *)
(* include_resource_object is true; it is null for None and not many, the  *)
(* empty list for None and many, and otherwise the linkage of the value:   *)
(* one {type: type_, id: stringify(id)} for not many, one per element in   *)
(* input order for many, where the id is the element's id_field attribute  *)
(* or, when it has none, the element itself; stringify keeps None and      *)
(* turns any other id into its text.                                       *)
C7_DataMember ==
    SerializeReturned =>
        LET self == call.self
            value == call.value
            ret == call.out.ret
            id_of(e) == IF self.id_field.s \in DOMAIN e.attrs
                        THEN e.attrs[self.id_field.s] ELSE e.self
            text(v) == IF v.t = "none" THEN v
                       ELSE IF v.t = "int" THEN [t |-> "str", i |-> 0, s |-> ToString(v.i)]
                       ELSE v
            is_linkage(m, e) == /\ DOMAIN m = {"type", "id"}
                                /\ m["type"] = self.type_
                                /\ m["id"] = text(id_of(e))
        IN  /\ ("data" \in DOMAIN ret) <=> self.include_resource_object
            /\ "data" \in DOMAIN ret =>
                 LET data == ret["data"]
                 IN  /\ (value.kind = "none" /\ ~self.many) => data.kind = "null"
                     /\ (value.kind = "none" /\ self.many) =>
                            data.kind = "list" /\ data.items = << >>
                     /\ value.kind = "one" =>
                            data.kind = "mapping" /\ is_linkage(data.items[1], value.items[1])
                     /\ value.kind = "list" =>
                            /\ data.kind = "list"
                            /\ Len(data.items) = Len(value.items)
                            /\ \A k \in 1..Len(value.items) :
                                 is_linkage(data.items[k], value.items[k])

C7_Witness ==
    /\ SerializeReturned
    /\ call.self.many /\ call.self.include_resource_object
    /\ Len(call.value.items) = 2
    /\ call.value.items[1].attrs = EmptyDict
    /\ "id" \in DOMAIN call.value.items[2].attrs
    /\ call.out.ret["data"].items[1]["id"] = Str_("2")
    /\ call.out.ret["data"].items[2]["id"] = Str_("1")

\* ret with the type of its k-th linkage set to ty
Retyped(ret, k, ty) ==
    [ret EXCEPT !["data"] = [@ EXCEPT !.items = [@ EXCEPT ![k] = [@ EXCEPT !["type"] = ty]]]]

(* C8: for a field with include_resource_object and a type_, and a value   *)
(* that is not None, deserializing the object serialize returned succeeds  *)
(* and gives the stringified id (not many) or the stringified ids in input *)
(* order (many); with a linkage's type changed to anything but type_ it    *)
(* fails with the invalid-type message.                                    *)
C8_LinkageRoundTrip ==
    (SerializeReturned /\ call.self.include_resource_object /\ call.value.kind # "none") =>
        LET self == call.self
            items == call.value.items
            ret == call.out.ret
            back == deserialize(self, RawDict(ret))
            id_of(e) == IF self.id_field.s \in DOMAIN e.attrs
                        THEN e.attrs[self.id_field.s] ELSE e.self
            text(v) == IF v.t = "none" THEN v
                       ELSE IF v.t = "int" THEN [t |-> "str", i |-> 0, s |-> ToString(v.i)]
                       ELSE v
        IN  /\ back.raised = ""
            /\ self.many => /\ Len(back.ret) = Len(items)
                            /\ \A k \in 1..Len(items) : back.ret[k] = text(id_of(items[k]))
            /\ ~self.many => back.ret = text(id_of(items[1]))
            /\ \A k \in 1..Len(items) :
                 \A ty \in {None, Str_(""), Str_("comments"), Str_("People")} :
                    LET bad == deserialize(self, RawDict(Retyped(ret, k, ty)))
                    IN  /\ bad.raised = "ValidationError"
                        /\ bad.messages = <<InvalidType>>

C8_Witness ==
    /\ SerializeReturned
    /\ call.self.include_resource_object /\ call.self.many
    /\ Len(call.value.items) = 2
    /\ call.value.items[1] # call.value.items[2]
    /\ deserialize(call.self, RawDict(call.out.ret)).ret = <<Str_("1"), Str_("2")>>

(* C9: construction fails with a configuration error exactly when          *)
(* include_resource_object or include_data is asked for without a type_,   *)
(* or include_data without a schema; so a field that exists satisfies,     *)
(* after any calls: include_data implies include_resource_object,          *)
(* include_resource_object implies type_ is set, include_data implies the  *)
(* schema is set.                                                          *)
C9_ConstructionInvariant ==
    /\ call.op = "init" =>
         LET a == call.args
             unset_type == a.type_.t = "none" \/ (a.type_.t = "str" /\ a.type_.s = "")
             unset_schema == a.schema.t = "none" \/ (a.schema.t = "name" /\ a.schema.cls = "")
             refused == \/ (a.include_resource_object \/ a.include_data) /\ unset_type
                        \/ a.include_data /\ unset_schema
         IN  /\ (call.out.raised = "ValueError") <=> refused
             /\ (state = "failed") <=> refused
             /\ (state = "ready") <=> ~refused
    /\ state = "ready" =>
         /\ field.include_data => field.include_resource_object
         /\ field.include_resource_object => field.type_.t = "str" /\ field.type_.s # ""
         /\ field.include_data => field.schema.t \in {"instance", "class", "name"}

C9_Witness ==
    /\ state = "ready"
    /\ call.op = "serialize"
    /\ field.include_data
    /\ ~IsSchemaInstance(call.self.schema)
    /\ IsSchemaInstance(field.schema)

(* C10, as claimed: the object serialize returns has a links member iff    *)
(* the self URL or the related URL is not None (a URL is None exactly when *)
(* its template is empty); links then holds self iff the self URL is not   *)
(* None and related iff the related URL is not None, each with the         *)
(* resolved string, and nothing else.                                      *)
C10_LinksIffNotNone ==
    SerializeReturned =>
        LET self_url == get_self_url(call.self, call.obj).ret
            related_url == get_related_url(call.self, call.obj).ret
            ret == call.out.ret
        IN  /\ (self_url = None) <=> (call.self.self_url = << >>)
            /\ (related_url = None) <=> (call.self.related_url = << >>)
            /\ ("links" \in DOMAIN ret) <=> (self_url # None \/ related_url # None)
            /\ "links" \in DOMAIN ret =>
                 /\ DOMAIN ret["links"] \subseteq {"self", "related"}
                 /\ ("self" \in DOMAIN ret["links"]) <=> (self_url # None)
                 /\ ("related" \in DOMAIN ret["links"]) <=> (related_url # None)
                 /\ "self" \in DOMAIN ret["links"] => ret["links"]["self"] = self_url
                 /\ "related" \in DOMAIN ret["links"] => ret["links"]["related"] = related_url

(* C10, amended: the object serialize returns has a links member iff the   *)
(* self URL or the related URL is a non-empty string (a URL is None        *)
(* exactly when its template is empty, and a template whose substitution   *)
(* yields the empty string counts as no URL); links then holds self iff    *)
(* the self URL is a non-empty string and related iff the related URL is,  *)
(* each with the resolved string, and nothing else.                        *)
C10_LinksIffNonEmpty ==
    SerializeReturned =>
        LET self_url == get_self_url(call.self, call.obj).ret
            related_url == get_related_url(call.self, call.obj).ret
            ret == call.out.ret
            present(u) == u.t = "str" /\ u.s # ""
        IN  /\ (self_url = None) <=> (call.self.self_url = << >>)
            /\ (related_url = None) <=> (call.self.related_url = << >>)
            /\ DOMAIN ret \subseteq {"links", "data"}
            /\ ("links" \in DOMAIN ret) <=> (present(self_url) \/ present(related_url))
            /\ "links" \in DOMAIN ret =>
                 /\ DOMAIN ret["links"] \subseteq {"self", "related"}
                 /\ ("self" \in DOMAIN ret["links"]) <=> present(self_url)
                 /\ ("related" \in DOMAIN ret["links"]) <=> present(related_url)
                 /\ "self" \in DOMAIN ret["links"] => ret["links"]["self"] = self_url
                 /\ "related" \in DOMAIN ret["links"] => ret["links"]["related"] = related_url

C10_Witness ==
    /\ SerializeReturned
    /\ get_self_url(call.self, call.obj).ret = Str_("")
    /\ get_related_url(call.self, call.obj).ret = Str_("/posts/42/comments/")
    /\ DOMAIN call.out.ret["links"] = {"related"}

=============================================================================
